---------------------------- MODULE Spec2Model ----------------------------
(***************************************************************************)
(* A model of radio.py: a falcon/gunicorn service that plays internet      *)
(* radio through an mplayer child process and runs a wake alarm.           *)
(*                                                                         *)
(*   PersistentConfig   the JSON document radio-config.json and its        *)
(*                      path-addressed get/set                             *)
(*   Radio              owner of the mplayer child process                 *)
(*   RadioResource      GET /radio/{action}                                *)
(*   AlarmResource      GET /alarm/{action} and the scheduler thread       *)
(*   AlarmTimeResource  GET /alarm/time/{hour}:{min}                       *)
(*                                                                         *)
(* Two threads of control exist in the service: the gunicorn worker that   *)
(* serves one request at a time (thread "h") and the scheduler thread      *)
(* started by AlarmResource.__init__ (thread "s").  Neither Radio nor      *)
(* PersistentConfig takes a lock, so the steps of the two threads          *)
(* interleave at every read and write of a shared attribute.               *)
(***************************************************************************)
EXTENDS Integers, Sequences, FiniteSets, TLC

VARIABLES
    file,       \* radio-config.json on disk
    service,    \* "up" once the module level code ran, "failed" if it raised
    config,     \* PersistentConfig._config
    process,    \* Radio.process: "None", or the state of the process of the Popen
                \* object it refers to: "running", "terminating" (sent SIGTERM
                \* and not exited yet) or "exited"
    orphans,    \* the mplayer processes that are alive and that Radio.process
                \* does not refer to: how many are running, how many terminating
    pc,         \* thread -> position in the code
    site,       \* thread -> the Radio call (and is_playing call site) it is inside
    req,        \* the request the worker is serving
    resp,       \* the status of the last response ("" before the first one)
    sched,      \* locals of the scheduler thread's current tick
    last_should_be_playing,  \* AlarmResource.last_should_be_playing
    thread_should_exit,      \* AlarmResource.thread_should_exit
    sched_last_call,         \* the most recent Radio call made by check_time
    err,        \* thread -> the exception that ended its last request / the thread
    log,        \* the calls a direct caller of Radio completed, newest last
    cur,        \* what the Radio call of a direct caller has done so far
    ret         \* the outcome of the last direct call of a function under test

vars == <<file, service, config, process, orphans, pc, site, req, resp, sched,
          last_should_be_playing, thread_should_exit, sched_last_call, err,
          log, cur, ret>>

-----------------------------------------------------------------------------
(* Bounds of the model *)

\* number of mplayer processes that can be alive at the same time
MaxProcs == 2

-----------------------------------------------------------------------------
(* JSON values and documents *)

\* A JSON scalar or the marker of a mapping.
JBool(b) == [t |-> "bool", b |-> b]
JInt(n)  == [t |-> "int", n |-> n]
JMap     == [t |-> "map"]

\* a test that takes every value for true
Truthy_always(v) == TRUE

\* Python truthiness of a value, as `if self.config.get(..)` evaluates it.
Truthy(v) ==
    CASE v.t = "bool" -> v.b
      [] v.t = "int"  -> v.n # 0
      [] OTHER        -> TRUE

\* A document is a function from the paths present in it to their values;
\* the root mapping is the path << >>.
IsPrefix(p, q) == Len(p) <= Len(q) /\ SubSeq(q, 1, Len(p)) = p

DEFAULT_CONFIG ==
    ( << >>                 :> JMap @@
      <<"alarm">>           :> JMap @@
      <<"alarm", "on">>     :> JBool(FALSE) @@
      <<"alarm", "hour">>   :> JInt(6) @@
      <<"alarm", "min">>    :> JInt(55) @@
      <<"radio">>           :> JMap @@
      <<"radio", "playing">> :> JBool(FALSE) )


\* A fully populated document with the given leaves.
ConfigDoc(on, hour, min, playing) ==
    ( << >>                 :> JMap @@
      <<"alarm">>           :> JMap @@
      <<"alarm", "on">>     :> JBool(on) @@
      <<"alarm", "hour">>   :> JInt(hour) @@
      <<"alarm", "min">>    :> JInt(min) @@
      <<"radio">>           :> JMap @@
      <<"radio", "playing">> :> JBool(playing) )

-----------------------------------------------------------------------------
(* PersistentConfig *)

\* A key is the text of a path, a sequence of segment names and "/" marks:
\* 'alarm/hour' is <<"alarm", "/", "hour">>.
RECURSIVE SplitFrom(_, _)
SplitFrom(key, part) ==
    IF key = << >> THEN <<part>>
    ELSE IF Head(key) = "/" THEN <<part>> \o SplitFrom(Tail(key), "")
    ELSE SplitFrom(Tail(key), Head(key))

\* key.split("/")
Split(key) == SplitFrom(key, "")

\* for key_part in parts: value = value[key_part]
RECURSIVE Descend(_, _, _)
Descend(doc, at, parts) ==
    IF parts = << >> THEN [exc |-> "none", at |-> at]
    ELSE IF doc[at].t # "map" THEN [exc |-> "TypeError"]
    ELSE IF Append(at, Head(parts)) \notin DOMAIN doc THEN [exc |-> "KeyError"]
    ELSE Descend(doc, Append(at, Head(parts)), Tail(parts))

\* PersistentConfig.get: the value at the key, or the exception it raises.
Get(doc, key) ==
    LET r == Descend(doc, << >>, Split(key))
    IN  IF r.exc # "none" THEN [exc |-> r.exc]
        ELSE [exc |-> "none", val |-> doc[r.at]]

\* an assignment that assigns nothing
Assign_skipped(doc, at, name, value) == doc

\* old_value[key_parts[-1]] = value on the mapping at path `at`
Assign(doc, at, name, value) ==
    LET p    == Append(at, name)
        keep == {q \in DOMAIN doc : ~(IsPrefix(p, q) /\ q # p)} \cup {p}
    IN  [q \in keep |-> IF q = p THEN value ELSE doc[q]]

\* The in-memory part of PersistentConfig.set: the document after the
\* assignment, or the exception raised before anything changed.
SetDoc(doc, key, value) ==
    LET parts == Split(key)
        r     == Descend(doc, << >>, SubSeq(parts, 1, Len(parts) - 1))
    IN  IF r.exc # "none" THEN [exc |-> r.exc]
        ELSE IF doc[r.at].t # "map" THEN [exc |-> "TypeError"]
        ELSE [exc |-> "none", doc |-> Assign(doc, r.at, parts[Len(parts)], value)]

\* json.dump writes a value as JSON text: the literals true and false, a
\* decimal numeral, an object.
Dump(v) ==
    CASE v.t = "bool" -> [lit |-> IF v.b THEN "true" ELSE "false"]
      [] v.t = "int"  -> [lit |-> "number", digits |-> v.n]
      [] OTHER        -> [lit |-> "object"]

\* json.load reads the text of a value.
Parse(x) ==
    CASE x.lit = "true"   -> JBool(TRUE)
      [] x.lit = "false"  -> JBool(FALSE)
      [] x.lit = "number" -> JInt(x.digits)
      [] OTHER            -> JMap

\* PersistentConfig.save: json.dump of the document over the file.
Saved(doc) == [kind |-> "json", text |-> [p \in DOMAIN doc |-> Dump(doc[p])]]

\* a set that does not save
Set_unsaved(doc, f, key, value) ==
    LET r == SetDoc(doc, key, value)
    IN  IF r.exc # "none" THEN [exc |-> r.exc, doc |-> doc, file |-> f]
        ELSE [exc |-> "none", doc |-> r.doc, file |-> f]

\* PersistentConfig.set: what the call leaves in memory and on disk.
Set(doc, f, key, value) ==
    LET r == SetDoc(doc, key, value)
    IN  IF r.exc # "none" THEN [exc |-> r.exc, doc |-> doc, file |-> f]
        ELSE [exc |-> "none", doc |-> r.doc, file |-> Saved(r.doc)]

\* The try/except of PersistentConfig.__init__: open() raises OSError for a
\* missing or unreadable file, and only OSError is caught; json.load raises
\* JSONDecodeError (a ValueError) for malformed text and returns None for
\* the text `null`.
Load(f) ==
    CASE f.kind \in {"missing", "unreadable"} -> [exc |-> "none", doc |-> DEFAULT_CONFIG]
      [] f.kind = "null"      -> [exc |-> "none", doc |-> DEFAULT_CONFIG]
      [] f.kind = "malformed" -> [exc |-> "JSONDecodeError"]
      [] OTHER                ->
             [exc |-> "none", doc |-> [p \in DOMAIN f.text |-> Parse(f.text[p])]]

\* The keys the service uses.
K_alarm_on      == <<"alarm", "/", "on">>
K_alarm_hour    == <<"alarm", "/", "hour">>
K_alarm_min     == <<"alarm", "/", "min">>
K_radio_playing == <<"radio", "/", "playing">>

-----------------------------------------------------------------------------
(* Threads, requests and the control state of a thread *)

Threads == {"h", "s"}

NoReq   == [route |-> "none"]
NoTick  == [wd |-> -1]
NoCall  == [op |-> "none"]

\* What a Radio call has done so far: whether the player was alive at its
\* first is_playing(), whether it spawned, whether it sent a signal (SIGTERM
\* by terminate(), SIGKILL by kill()), whether the player was alive at the
\* is_playing() after the grace period, whether it raised.
NewCall(op) == [op |-> op, pre |-> "unknown", spawned |-> FALSE,
                signalled |-> FALSE, terminated |-> FALSE, killed |-> FALSE,
                recheck |-> "none", raised |-> FALSE]

\* The control variables, as one record that the steps below update.
Ctl == [pc |-> pc, site |-> site, req |-> req, resp |-> resp, err |-> err,
        log |-> log, cur |-> cur]

SetCtl(c) ==
    /\ pc' = c.pc
    /\ site' = c.site
    /\ req' = c.req
    /\ resp' = c.resp
    /\ err' = c.err
    /\ log' = c.log
    /\ cur' = c.cur

\* A direct caller's call in progress has spawned / has sent a signal.
Did(c, t, what) ==
    IF t = "h" /\ c.cur.op # "none"
    THEN CASE what = "spawned"    -> [c EXCEPT !.cur.spawned = TRUE]
           [] what = "terminated" -> [c EXCEPT !.cur.signalled = TRUE,
                                               !.cur.terminated = TRUE]
           [] OTHER               -> [c EXCEPT !.cur.signalled = TRUE,
                                               !.cur.killed = TRUE]
    ELSE c

\* number of completed calls that the log of a direct caller keeps
LogLen == 3

\* The last calls a direct caller completed.
Logged(l, entry) ==
    IF Len(l) < LogLen THEN Append(l, entry) ELSE Append(Tail(l), entry)

\* A thread enters Radio.start_playing / Radio.stop_playing: both begin
\* with a call of is_playing().
Enter(c, t, op) ==
    [c EXCEPT !.pc[t] = "ip1",
              !.site[t] = IF op = "start_playing" THEN "sp" ELSE "st1"]

\* start_playing / stop_playing returns to its caller: check_time returns to
\* the loop of run (time.sleep(1)), on_get goes on to config.set, a direct
\* caller has its call logged.
Return(c, t) ==
    IF t = "s"
    THEN [c EXCEPT !.pc[t] = "s_loop", !.site[t] = "none"]
    ELSE IF c.req.route = "api"
    THEN [c EXCEPT !.pc[t] = "idle", !.site[t] = "none", !.req = NoReq,
                   !.log = Logged(c.log, c.cur), !.cur = NoCall]
    ELSE [c EXCEPT !.pc[t] = "h_set", !.site[t] = "none"]

\* An exception nobody catches: it ends the scheduler thread (run has no
\* try), and it ends the request of the worker with a 500 response.
Raise(c, t, e) ==
    IF t = "s"
    THEN [c EXCEPT !.pc[t] = "s_dead", !.site[t] = "none", !.err[t] = e]
    ELSE IF c.req.route = "api"
    THEN [c EXCEPT !.pc[t] = "idle", !.site[t] = "none", !.req = NoReq,
                   !.err[t] = e, !.cur = NoCall,
                   !.log = Logged(c.log, [c.cur EXCEPT !.raised = TRUE])]
    ELSE [c EXCEPT !.pc[t] = "idle", !.site[t] = "none", !.req = NoReq,
                   !.err[t] = e, !.resp = "500"]

\* falcon sends the response of on_get.
Respond(c, status) ==
    [c EXCEPT !.pc["h"] = "idle", !.site["h"] = "none", !.req = NoReq,
              !.resp = status]

-----------------------------------------------------------------------------
(* Radio *)

NoOrphans == [running |-> 0, terminating |-> 0]

IsLive(p) == p \in {"running", "terminating"}

\* The number of mplayer processes alive.
LiveCount(ref, orph) ==
    orph.running + orph.terminating + (IF IsLive(ref) THEN 1 ELSE 0)

\* Radio.process is assigned: the Popen object it referred to is dropped,
\* and if its process is still alive nothing refers to that process now.
Dropped(ref, orph) ==
    CASE ref = "running"     -> [orph EXCEPT !.running = @ + 1]
      [] ref = "terminating" -> [orph EXCEPT !.terminating = @ + 1]
      [] OTHER               -> orph

\* Where a thread goes when is_playing() returned `playing` to the place it
\* was called from.
AfterIsPlaying(c, t, playing) ==
    LET alive == IsLive(process)
        c1 == IF t = "h" /\ c.cur.op # "none" /\ c.cur.pre = "unknown"
              THEN [c EXCEPT !.cur.pre = IF alive THEN "playing" ELSE "idle"]
              ELSE IF t = "h" /\ c.cur.op # "none" /\ c.site[t] = "st2"
              THEN [c EXCEPT !.cur.recheck = IF alive THEN "alive" ELSE "exited"]
              ELSE c
    IN  CASE c.site[t] = "h_start" ->
               IF playing
               THEN [c1 EXCEPT !.pc[t] = "h_set", !.site[t] = "none",
                               !.req.result = "already started"]
               ELSE Enter([c1 EXCEPT !.req.result = "ok let's start this"],
                          t, "start_playing")
          [] c.site[t] = "h_stop" ->
               IF playing
               THEN Enter([c1 EXCEPT !.req.result = "ok let's stop this"],
                          t, "stop_playing")
               ELSE [c1 EXCEPT !.pc[t] = "h_set", !.site[t] = "none",
                               !.req.result = "already stopped"]
          [] c.site[t] = "h_status" ->
               Respond(c1, IF playing THEN "started" ELSE "stopped")
          [] c.site[t] = "sp" ->
               IF playing THEN Return(c1, t) ELSE [c1 EXCEPT !.pc[t] = "spawn"]
          [] c.site[t] = "st1" ->
               IF playing THEN [c1 EXCEPT !.pc[t] = "term"] ELSE Return(c1, t)
          [] OTHER ->  \* "st2": the check after time.sleep(3.0)
               IF playing THEN [c1 EXCEPT !.pc[t] = "kill"]
               ELSE [c1 EXCEPT !.pc[t] = "clear"]

\* a poll() read the wrong way round
poll_is_None_inverted(p) == p = "exited"

\* self.process.poll() is None: poll() returns None if not exited yet
poll_is_None(p) == p # "exited"

\* is_playing, left operand of `and`: self.process is not None
is_playing_1(t) ==
    /\ pc[t] = "ip1"
    /\ IF process # "None"
       THEN SetCtl([Ctl EXCEPT !.pc[t] = "ip2"])
       ELSE SetCtl(AfterIsPlaying(Ctl, t, FALSE))
    /\ UNCHANGED <<file, service, config, process, orphans, sched,
                   last_should_be_playing, thread_should_exit,
                   sched_last_call, ret>>

\* is_playing, right operand: self.process.poll() is None.  The attribute is
\* read again; if it is None by now the call raises AttributeError.
is_playing_2(t) ==
    /\ pc[t] = "ip2"
    /\ IF process = "None"
       THEN SetCtl(Raise(Ctl, t, "AttributeError"))
       ELSE SetCtl(AfterIsPlaying(Ctl, t, poll_is_None(process)))
    /\ UNCHANGED <<file, service, config, process, orphans, sched,
                   last_should_be_playing, thread_should_exit,
                   sched_last_call, ret>>

\* start_playing: self.process = subprocess.Popen([...]).  Popen raises
\* OSError when the system cannot create another process, and then nothing
\* is assigned.
Popen(t) ==
    /\ pc[t] = "spawn"
    /\ IF LiveCount(process, orphans) < MaxProcs
       THEN /\ process' = "running"
            /\ orphans' = Dropped(process, orphans)
            /\ SetCtl(Return(Did(Ctl, t, "spawned"), t))
       ELSE /\ SetCtl(Raise(Ctl, t, "OSError"))
            /\ UNCHANGED <<process, orphans>>
    /\ UNCHANGED <<file, service, config, sched, last_should_be_playing,
                   thread_should_exit, sched_last_call, ret>>

\* stop_playing: self.process.terminate(), then time.sleep(3.0) and the
\* second is_playing().  SIGTERM asks the process to exit; it may or may not.
terminate(t) ==
    /\ pc[t] = "term"
    /\ IF process = "None"
       THEN /\ SetCtl(Raise(Ctl, t, "AttributeError"))
            /\ UNCHANGED process
       ELSE /\ process' = IF process = "running" THEN "terminating" ELSE process
            /\ SetCtl([Did(Ctl, t, "terminated")
                          EXCEPT !.pc[t] = "ip1", !.site[t] = "st2"])
    /\ UNCHANGED <<file, service, config, orphans, sched,
                   last_should_be_playing, thread_should_exit,
                   sched_last_call, ret>>

\* stop_playing: self.process.kill()
kill(t) ==
    /\ pc[t] = "kill"
    /\ IF process = "None"
       THEN /\ SetCtl(Raise(Ctl, t, "AttributeError"))
            /\ UNCHANGED process
       ELSE /\ process' = "exited"
            /\ SetCtl([Did(Ctl, t, "killed") EXCEPT !.pc[t] = "clear"])
    /\ UNCHANGED <<file, service, config, orphans, sched,
                   last_should_be_playing, thread_should_exit,
                   sched_last_call, ret>>

\* stop_playing: self.process = None
clear(t) ==
    /\ pc[t] = "clear"
    /\ process' = "None"
    /\ orphans' = Dropped(process, orphans)
    /\ SetCtl(Return(Ctl, t))
    /\ UNCHANGED <<file, service, config, sched, last_should_be_playing,
                   thread_should_exit, sched_last_call, ret>>

\* An mplayer process exits: by itself (the stream ends, the network fails)
\* or because it was sent SIGTERM.  `which` is "process" for the process of
\* Radio.process, or the kind of orphan.  An exit nobody asked for starts a
\* new history for a direct caller.
ProcessExits(which) ==
    /\ CASE which = "process" ->
              /\ IsLive(process)
              /\ process' = "exited"
              /\ log' = IF process = "running" THEN << >> ELSE log
              /\ UNCHANGED orphans
         [] which = "running" ->
              /\ orphans.running > 0
              /\ orphans' = [orphans EXCEPT !.running = @ - 1]
              /\ log' = << >>
              /\ UNCHANGED process
         [] OTHER ->
              /\ orphans.terminating > 0
              /\ orphans' = [orphans EXCEPT !.terminating = @ - 1]
              /\ UNCHANGED <<process, log>>
    /\ UNCHANGED <<file, service, config, pc, site, req, resp, sched,
                   last_should_be_playing, thread_should_exit,
                   sched_last_call, err, cur, ret>>

-----------------------------------------------------------------------------
(* RadioResource *)

RadioActions == {"start", "stop", "status", "bogus"}

\* on_get: the first thing every known action does is self.radio.is_playing();
\* any other action is answered at once.
RadioResource_on_get(action) ==
    /\ service = "up" /\ pc["h"] = "idle" /\ ~thread_should_exit
    /\ IF action \in {"start", "stop", "status"}
       THEN SetCtl([Ctl EXCEPT !.pc["h"] = "ip1",
                               !.site["h"] = IF action = "start" THEN "h_start"
                                             ELSE IF action = "stop" THEN "h_stop"
                                             ELSE "h_status",
                               !.req = [route |-> "radio", action |-> action,
                                        result |-> ""],
                               !.resp = "", !.err["h"] = "none"])
       ELSE SetCtl([Respond(Ctl, "not sure what to do with this")
                       EXCEPT !.err["h"] = "none"])
    /\ UNCHANGED <<file, service, config, process, orphans, sched,
                   last_should_be_playing, thread_should_exit,
                   sched_last_call, ret>>

\* on_get, actions start and stop: self.config.set('radio/playing', ...)
\* and the response.
RadioResource_set_playing ==
    /\ pc["h"] = "h_set"
    /\ LET r == Set(config, file, K_radio_playing, JBool(req.action = "start"))
       IN  /\ config' = r.doc
           /\ file' = r.file
           /\ IF r.exc # "none"
              THEN SetCtl(Raise(Ctl, "h", r.exc))
              ELSE SetCtl(Respond(Ctl, req.result))
    /\ UNCHANGED <<service, process, orphans, sched, last_should_be_playing,
                   thread_should_exit, sched_last_call, ret>>

-----------------------------------------------------------------------------
(* AlarmResource.on_get and AlarmTimeResource.on_get *)

AlarmActions == {"on", "off", "status", "bogus"}

\* The status that on_get answers to an action when alarm/on is `on`.
AlarmStatus(action, on) ==
    CASE action = "on"     -> IF on THEN "alarm already on" ELSE "ok, set alarm on"
      [] action = "off"    -> IF on THEN "ok, set alarm off" ELSE "alarm already off"
      [] action = "status" -> IF on THEN "on at %02d:%02d" ELSE "off"
      [] OTHER             -> "not sure what to do with this"

\* AlarmResource.on_get: it only reads and writes the configuration, and the
\* worker is the only writer, so the request is one step.
AlarmResource_on_get(action) ==
    /\ service = "up" /\ pc["h"] = "idle" /\ ~thread_should_exit
    /\ LET g == Get(config, K_alarm_on)
           c == [Ctl EXCEPT !.err["h"] = "none", !.resp = ""]
       IN  IF action \notin {"on", "off", "status"}
           THEN /\ SetCtl(Respond(c, AlarmStatus(action, FALSE)))
                /\ UNCHANGED <<config, file>>
           ELSE IF g.exc # "none"
           THEN /\ SetCtl(Raise(c, "h", g.exc))
                /\ UNCHANGED <<config, file>>
           ELSE IF action = "status"
           THEN /\ SetCtl(Respond(c, AlarmStatus(action, Truthy(g.val))))
                /\ UNCHANGED <<config, file>>
           ELSE LET r == Set(config, file, K_alarm_on, JBool(action = "on"))
                IN  /\ config' = r.doc
                    /\ file' = r.file
                    /\ IF r.exc # "none"
                       THEN SetCtl(Raise(c, "h", r.exc))
                       ELSE SetCtl(Respond(c, AlarmStatus(action, Truthy(g.val))))
    /\ UNCHANGED <<service, process, orphans, sched, last_should_be_playing,
                   thread_should_exit, sched_last_call, ret>>

\* A field of the route /alarm/time/{hour}:{min}: the text of a decimal
\* numeral, or text that int() rejects.
Numeral(n) == [numeric |-> TRUE, n |-> n]
Junk       == [numeric |-> FALSE]

\* The requests to /alarm/time/{hour}:{min} that are made.
TimeRequests ==
    {<<Numeral(23), Numeral(59)>>, <<Numeral(7), Numeral(59)>>,
     <<Numeral(24), Numeral(0)>>, <<Numeral(-1), Numeral(59)>>,
     <<Numeral(7), Numeral(60)>>, <<Numeral(7), Numeral(-1)>>,
     <<Junk, Numeral(59)>>, <<Numeral(7), Junk>>}

\* a validation that lets hour 24 through
TimeValid_through_24(hour, min) == 24 >= hour /\ hour >= 0 /\ 59 >= min /\ min >= 0

\* 23 >= hour >= 0 and 59 >= min >= 0
TimeValid(hour, min) == 23 >= hour /\ hour >= 0 /\ 59 >= min /\ min >= 0

\* AlarmTimeResource.on_get up to and including config.set('alarm/hour', hour)
AlarmTimeResource_on_get(hf, mf) ==
    /\ service = "up" /\ pc["h"] = "idle" /\ ~thread_should_exit
    /\ LET c == [Ctl EXCEPT !.err["h"] = "none", !.resp = ""]
       IN  IF ~hf.numeric \/ ~mf.numeric
           THEN /\ SetCtl(Raise(c, "h", "ValueError"))
                /\ UNCHANGED <<config, file>>
           ELSE IF ~TimeValid(hf.n, mf.n)
           THEN /\ SetCtl(Respond(c, "time not valid"))
                /\ UNCHANGED <<config, file>>
           ELSE LET r == Set(config, file, K_alarm_hour, JInt(hf.n))
                IN  /\ config' = r.doc
                    /\ file' = r.file
                    /\ IF r.exc # "none"
                       THEN SetCtl(Raise(c, "h", r.exc))
                       ELSE SetCtl([c EXCEPT !.pc["h"] = "at_min",
                                             !.req = [route |-> "time",
                                                      hour |-> hf.n, min |-> mf.n]])
    /\ UNCHANGED <<service, process, orphans, sched, last_should_be_playing,
                   thread_should_exit, sched_last_call, ret>>

\* AlarmTimeResource.on_get: config.set('alarm/min', min) and the response
AlarmTimeResource_set_min ==
    /\ pc["h"] = "at_min"
    /\ LET r == Set(config, file, K_alarm_min, JInt(req.min))
       IN  /\ config' = r.doc
           /\ file' = r.file
           /\ IF r.exc # "none"
              THEN SetCtl(Raise(Ctl, "h", r.exc))
              ELSE SetCtl(Respond(Ctl, "time set to %02d:%02d"))
    /\ UNCHANGED <<service, process, orphans, sched, last_should_be_playing,
                   thread_should_exit, sched_last_call, ret>>

-----------------------------------------------------------------------------
(* AlarmResource: the scheduler thread *)

\* The clock readings of a tick: datetime.today().weekday() (Monday is 0)
\* and datetime.now().time() as <<hour, minute, second>>.
Weekdays == {4, 5, 6}
Times    == {<<7, 55, 0>>, <<7, 55, 1>>}

saturday == 5

\* a test that takes Saturday for a weekday
is_weekday_through_saturday(wd) == wd <= saturday

\* is_weekday
is_weekday(wd) == wd < saturday

\* a datetime.time that takes hour 24
IsTime_through_24(hour, min) == hour \in 0..24 /\ min \in 0..59

\* datetime.time(hour, minute) raises ValueError outside these ranges.
IsTime(hour, min) == hour \in 0..23 /\ min \in 0..59

\* a <= b for two times of day
TimeLE(a, b) ==
    \/ a[1] < b[1]
    \/ a[1] = b[1] /\ a[2] < b[2]
    \/ a[1] = b[1] /\ a[2] = b[2] /\ a[3] <= b[3]

\* is_within_alarm_time on the clock reading and the four values it reads
\* from the configuration: start = time(sh, sm), end = time(eh + 1, em).
is_within_alarm_time(now, sh, sm, eh, em) ==
    IF ~IsTime(sh, sm) \/ ~IsTime(eh + 1, em)
    THEN [exc |-> "ValueError"]
    ELSE [exc |-> "none",
          val |-> TimeLE(<<sh, sm, 0>>, now) /\ TimeLE(now, <<eh + 1, em, 0>>)]

\* a level-triggered choice: a call on every tick
Edge_level(should, last) == IF should THEN "start_playing" ELSE "stop_playing"

\* The if / elif of check_time: the Radio call it makes, if any.
Edge(should, last) ==
    IF should /\ ~last THEN "start_playing"
    ELSE IF ~should /\ last THEN "stop_playing"
    ELSE "none"

\* config.get of an integer, as datetime.time and `+ 1` need it
GetInt(doc, key) ==
    LET g == Get(doc, key)
    IN  IF g.exc # "none" THEN g
        ELSE IF g.val.t # "int" THEN [exc |-> "TypeError"]
        ELSE [exc |-> "none", n |-> g.val.n]

\* a scheduler step that records the playback state in the configuration
SchedFrame_writing ==
    /\ config' = Set(config, file, K_radio_playing, JBool(TRUE)).doc
    /\ file' = Set(config, file, K_radio_playing, JBool(TRUE)).file
    /\ UNCHANGED <<service, process, orphans, thread_should_exit, ret>>

SchedFrame == UNCHANGED <<file, service, config, process, orphans,
                          thread_should_exit, ret>>

\* a loop that never tests thread_should_exit
run_forever ==
    /\ pc["s"] = "s_loop"
    /\ LET g == Get(config, K_alarm_on)
       IN  IF g.exc # "none" THEN SetCtl(Raise(Ctl, "s", g.exc))
           ELSE IF Truthy(g.val) THEN SetCtl([Ctl EXCEPT !.pc["s"] = "s_clock"])
           ELSE SetCtl(Ctl)
    /\ UNCHANGED <<sched, last_should_be_playing, sched_last_call>>
    /\ SchedFrame

\* run: the loop test, self.config.get('alarm/on'), and time.sleep(1) when
\* the alarm is off.
run ==
    /\ pc["s"] = "s_loop"
    /\ IF thread_should_exit
       THEN SetCtl([Ctl EXCEPT !.pc["s"] = "s_done"])
       ELSE LET g == Get(config, K_alarm_on)
            IN  IF g.exc # "none" THEN SetCtl(Raise(Ctl, "s", g.exc))
                ELSE IF Truthy(g.val) THEN SetCtl([Ctl EXCEPT !.pc["s"] = "s_clock"])
                ELSE SetCtl(Ctl)
    /\ UNCHANGED <<sched, last_should_be_playing, sched_last_call>>
    /\ SchedFrame

\* check_time: is_weekday() and, only if it is true, the clock reading of
\* is_within_alarm_time().
check_time_clock(wd, now) ==
    /\ pc["s"] = "s_clock"
    /\ IF is_weekday(wd)
       THEN /\ sched' = [wd |-> wd, now |-> now]
            /\ SetCtl([Ctl EXCEPT !.pc["s"] = "s_start_hour"])
       ELSE /\ now = CHOOSE t \in Times : TRUE
            /\ sched' = [wd |-> wd, should |-> FALSE]
            /\ SetCtl([Ctl EXCEPT !.pc["s"] = "s_edge"])
    /\ UNCHANGED <<last_should_be_playing, sched_last_call>>
    /\ SchedFrame

\* is_within_alarm_time: the four config.get calls, in the order of the code.
read_start_hour ==
    /\ pc["s"] = "s_start_hour"
    /\ LET g == GetInt(config, K_alarm_hour)
       IN  IF g.exc # "none"
           THEN SetCtl(Raise(Ctl, "s", g.exc)) /\ sched' = NoTick
           ELSE /\ sched' = [wd |-> sched.wd, now |-> sched.now, sh |-> g.n]
                /\ SetCtl([Ctl EXCEPT !.pc["s"] = "s_start_min"])
    /\ UNCHANGED <<last_should_be_playing, sched_last_call>>
    /\ SchedFrame

read_start_min ==
    /\ pc["s"] = "s_start_min"
    /\ LET g == GetInt(config, K_alarm_min)
       IN  IF g.exc # "none"
           THEN SetCtl(Raise(Ctl, "s", g.exc)) /\ sched' = NoTick
           ELSE IF ~IsTime(sched.sh, g.n)
           THEN SetCtl(Raise(Ctl, "s", "ValueError")) /\ sched' = NoTick
           ELSE /\ sched' = [wd |-> sched.wd, now |-> sched.now,
                             sh |-> sched.sh, sm |-> g.n]
                /\ SetCtl([Ctl EXCEPT !.pc["s"] = "s_end_hour"])
    /\ UNCHANGED <<last_should_be_playing, sched_last_call>>
    /\ SchedFrame

read_end_hour ==
    /\ pc["s"] = "s_end_hour"
    /\ LET g == GetInt(config, K_alarm_hour)
       IN  IF g.exc # "none"
           THEN SetCtl(Raise(Ctl, "s", g.exc)) /\ sched' = NoTick
           ELSE /\ sched' = [wd |-> sched.wd, now |-> sched.now,
                             sh |-> sched.sh, sm |-> sched.sm, eh |-> g.n]
                /\ SetCtl([Ctl EXCEPT !.pc["s"] = "s_end_min"])
    /\ UNCHANGED <<last_should_be_playing, sched_last_call>>
    /\ SchedFrame

\* the last read, the construction of `end` and the comparison
read_end_min ==
    /\ pc["s"] = "s_end_min"
    /\ LET g == GetInt(config, K_alarm_min)
       IN  IF g.exc # "none"
           THEN SetCtl(Raise(Ctl, "s", g.exc)) /\ sched' = NoTick
           ELSE LET w == is_within_alarm_time(sched.now, sched.sh, sched.sm,
                                              sched.eh, g.n)
                IN  IF w.exc # "none"
                    THEN /\ SetCtl(Raise(Ctl, "s", w.exc))
                         /\ sched' = [wd |-> sched.wd, now |-> sched.now,
                                      sh |-> sched.sh, sm |-> sched.sm,
                                      eh |-> sched.eh, em |-> g.n]
                    ELSE /\ sched' = [wd |-> sched.wd, now |-> sched.now,
                                      sh |-> sched.sh, sm |-> sched.sm,
                                      eh |-> sched.eh, em |-> g.n,
                                      should |-> w.val]
                         /\ SetCtl([Ctl EXCEPT !.pc["s"] = "s_edge"])
    /\ UNCHANGED <<last_should_be_playing, sched_last_call>>
    /\ SchedFrame

\* check_time: the if / elif on radio_should_be_playing and
\* last_should_be_playing, up to the Radio call.
check_time_edge ==
    /\ pc["s"] = "s_edge"
    /\ LET call == Edge(sched.should, last_should_be_playing)
       IN  IF call = "none"
           THEN /\ SetCtl([Ctl EXCEPT !.pc["s"] = "s_loop"])
                /\ UNCHANGED <<last_should_be_playing, sched_last_call>>
           ELSE /\ last_should_be_playing' = sched.should
                /\ sched_last_call' = call
                /\ SetCtl(Enter(Ctl, "s", call))
    /\ sched' = NoTick
    /\ SchedFrame

-----------------------------------------------------------------------------
(* Construction, restart and shutdown of the service *)

\* What radio-config.json may hold when the service starts.
FileContents ==
    {[kind |-> k] : k \in {"missing", "unreadable", "malformed", "null"}}
    \cup {Saved(ConfigDoc(on, 6, 55, playing)) : on \in BOOLEAN, playing \in BOOLEAN}

NoDoc == (<< >> :> JMap)

Idle(up) ==
    [pc      |-> [t \in Threads |-> IF t = "s" THEN (IF up THEN "s_loop" ELSE "off")
                                    ELSE (IF up THEN "idle" ELSE "off")],
     site    |-> [t \in Threads |-> "none"],
     req     |-> NoReq,
     resp    |-> "",
     err     |-> [t \in Threads |-> "none"],
     log     |-> << >>,
     cur     |-> NoCall]

\* The module level code: Radio(), PersistentConfig() (load, default, save),
\* RadioResource(radio, config) (which starts the player if radio/playing
\* is set) and AlarmResource(radio, config) (which starts the thread).
\* An exception on the way leaves no service.
Boot(f) ==
    LET l == Load(f)
        g == Get(l.doc, K_radio_playing)
    IN  IF l.exc # "none"
        THEN [service |-> "failed", exc |-> l.exc, file |-> f, config |-> NoDoc,
              process |-> "None", orphans |-> NoOrphans]
        ELSE IF g.exc # "none"
        THEN [service |-> "failed", exc |-> g.exc, file |-> Saved(l.doc),
              config |-> l.doc, process |-> "None", orphans |-> NoOrphans]
        ELSE [service |-> "up", exc |-> "none", file |-> Saved(l.doc),
              config |-> l.doc,
              process |-> IF Truthy(g.val) THEN "running" ELSE "None",
              orphans |-> NoOrphans]

Init ==
    \E f \in FileContents :
        LET b == Boot(f)
            c == Idle(b.service = "up")
        IN  /\ file = b.file
            /\ service = b.service
            /\ config = b.config
            /\ process = b.process
            /\ orphans = b.orphans
            /\ pc = c.pc /\ site = c.site /\ req = c.req /\ resp = c.resp
            /\ err = [c.err EXCEPT !["h"] = b.exc]
            /\ log = c.log /\ cur = c.cur
            /\ sched = NoTick
            /\ last_should_be_playing = FALSE
            /\ thread_should_exit = FALSE
            /\ sched_last_call = "none"
            /\ ret = [op |-> "none"]

\* The service process ends, however it does, and is started again: the
\* module level code runs on the file as it is.  The players of the old
\* service are gone with it.
Restart ==
    /\ service \in {"up", "failed"}
    /\ LET b == Boot(file)
           c == Idle(b.service = "up")
       IN  /\ file' = b.file
           /\ service' = b.service
           /\ config' = b.config
           /\ process' = b.process
           /\ orphans' = b.orphans
           /\ SetCtl([c EXCEPT !.err["h"] = b.exc])
    /\ sched' = NoTick
    /\ last_should_be_playing' = FALSE
    /\ thread_should_exit' = FALSE
    /\ sched_last_call' = "none"
    /\ UNCHANGED ret

\* AlarmResource.__del__: self.thread_should_exit = True; the join that
\* follows returns when run has returned or raised.
AlarmResource_del ==
    /\ service = "up" /\ pc["h"] = "idle" /\ ~thread_should_exit
    /\ thread_should_exit' = TRUE
    /\ UNCHANGED <<file, service, config, process, orphans, pc, site, req, resp,
                   sched, last_should_be_playing, sched_last_call, err, log,
                   cur, ret>>

-----------------------------------------------------------------------------
(* The service *)

RadioStep(t) ==
    \/ is_playing_1(t)
    \/ is_playing_2(t)
    \/ Popen(t)
    \/ terminate(t)
    \/ kill(t)
    \/ clear(t)

Next ==
    \/ \E a \in RadioActions : RadioResource_on_get(a)
    \/ RadioResource_set_playing
    \/ \E a \in AlarmActions : AlarmResource_on_get(a)
    \/ \E q \in TimeRequests : AlarmTimeResource_on_get(q[1], q[2])
    \/ AlarmTimeResource_set_min
    \/ run
    \/ \E wd \in Weekdays, now \in Times : check_time_clock(wd, now)
    \/ read_start_hour
    \/ read_start_min
    \/ read_end_hour
    \/ read_end_min
    \/ check_time_edge
    \/ \E t \in Threads : RadioStep(t)
    \/ \E which \in {"process", "running", "terminating"} : ProcessExits(which)
    \/ Restart
    \/ AlarmResource_del

Spec == Init /\ [][Next]_vars

-----------------------------------------------------------------------------
(* Radio called directly by one caller: no service, no second thread *)

Bench ==
    /\ service = "none"
    /\ site = [t \in Threads |-> "none"]
    /\ req = NoReq /\ resp = ""
    /\ err = [t \in Threads |-> "none"]
    /\ log = << >> /\ cur = NoCall
    /\ last_should_be_playing = FALSE
    /\ thread_should_exit = FALSE
    /\ sched_last_call = "none"
    /\ ret = [op |-> "none"]

\* radio = Radio()
InitRadio ==
    /\ Bench
    /\ pc = [t \in Threads |-> IF t = "h" THEN "idle" ELSE "off"]
    /\ sched = NoTick
    /\ file = [kind |-> "missing"]
    /\ config = NoDoc
    /\ process = "None"
    /\ orphans = NoOrphans

\* radio.start_playing() or radio.stop_playing() by the caller
Radio_call(op) ==
    /\ pc["h"] = "idle"
    /\ SetCtl(Enter([Ctl EXCEPT !.req = [route |-> "api", action |-> op],
                                !.err["h"] = "none",
                                !.cur = NewCall(op)], "h", op))
    /\ UNCHANGED <<file, service, config, process, orphans, sched,
                   last_should_be_playing, thread_should_exit,
                   sched_last_call, ret>>

NextRadio ==
    \/ \E op \in {"start_playing", "stop_playing"} : Radio_call(op)
    \/ RadioStep("h")
    \/ ProcessExits("process")

SpecRadio == InitRadio /\ [][NextRadio]_vars

-----------------------------------------------------------------------------
(* PersistentConfig called directly *)

\* Documents of other shapes that the file may hold.
OtherDocs ==
    { (<< >> :> JMap @@ <<"radio">> :> JMap @@ <<"radio", "playing">> :> JBool(TRUE)),
      (<< >> :> JMap @@ <<"alarm">> :> JMap @@ <<"alarm", "on">> :> JBool(FALSE)) }

ConfigKeys ==
    { K_alarm_hour, K_radio_playing,
      <<"alarm", "/", "nonexistent">>,
      <<"nope", "/", "x">>,
      <<"radio">>,
      <<"alarm", "/", "hour", "/", "x">>,
      <<"alarm", "/", "hour", "/", "x", "/", "y">> }

ConfigValues == {JBool(TRUE), JInt(7)}

\* config = PersistentConfig()
InitConfig ==
    /\ Bench
    /\ pc = [t \in Threads |-> "off"]
    /\ sched = NoTick
    /\ process = "None"
    /\ orphans = NoOrphans
    /\ \E f \in {[kind |-> "missing"], [kind |-> "null"]}
               \cup {Saved(d) : d \in OtherDocs \cup {DEFAULT_CONFIG}} :
          /\ config = Load(f).doc
          /\ file = Saved(Load(f).doc)

\* config.get(key)
Config_get(key) ==
    /\ ret' = [op |-> "get", key |-> key, r |-> Get(config, key)]
    /\ UNCHANGED <<file, service, config, process, orphans, pc, site, req,
                   resp, sched, last_should_be_playing, thread_should_exit,
                   sched_last_call, err, log, cur>>

\* config.set(key, value)
Config_set(key, value) ==
    /\ LET r == Set(config, file, key, value)
       IN  /\ config' = r.doc
           /\ file' = r.file
           /\ ret' = [op |-> "set", key |-> key, value |-> value, exc |-> r.exc]
    /\ UNCHANGED <<service, process, orphans, pc, site, req, resp, sched,
                   last_should_be_playing, thread_should_exit,
                   sched_last_call, err, log, cur>>

\* the process ends and a new one constructs PersistentConfig() again
Config_reload ==
    /\ Load(file).exc = "none"
    /\ config' = Load(file).doc
    /\ file' = Saved(Load(file).doc)
    /\ ret' = [op |-> "reload"]
    /\ UNCHANGED <<service, process, orphans, pc, site, req, resp, sched,
                   last_should_be_playing, thread_should_exit,
                   sched_last_call, err, log, cur>>

NextConfig ==
    \/ \E key \in ConfigKeys : Config_get(key)
    \/ \E key \in ConfigKeys, value \in ConfigValues : Config_set(key, value)
    \/ Config_reload

SpecConfig == InitConfig /\ [][NextConfig]_vars

-----------------------------------------------------------------------------
(* is_within_alarm_time evaluated on a fixed configuration *)

WindowHours == 0..23
WindowMins  == {0, 55, 59}
WindowTimes ==
    {<<h, m, s0>> : h \in {0, 6, 7, 8, 22, 23}, m \in {0, 54, 55, 56, 59}, s0 \in {0, 1, 59}}

\* The scheduler thread is at the first statement of is_within_alarm_time.
InitWindow ==
    /\ Bench
    /\ process = "None"
    /\ orphans = NoOrphans
    /\ \E h \in WindowHours, m \in WindowMins, now \in WindowTimes :
          /\ config = ConfigDoc(TRUE, h, m, FALSE)
          /\ file = Saved(config)
          /\ sched = [wd |-> 0, now |-> now]
          /\ pc = [t \in Threads |-> IF t = "s" THEN "s_start_hour" ELSE "off"]

NextWindow ==
    \/ read_start_hour
    \/ read_start_min
    \/ read_end_hour
    \/ read_end_min

SpecWindow == InitWindow /\ [][NextWindow]_vars

-----------------------------------------------------------------------------
(* Properties *)

\* C1: however start_playing() calls of the worker and of the scheduler
\* thread interleave, at most one mplayer process is alive and no process
\* is alive that Radio.process does not refer to.
C1_OnePlayerNoOrphan ==
    /\ LiveCount(process, orphans) <= 1
    /\ orphans = NoOrphans

\* C2: two start_playing() calls in a row, with no exit of the player in
\* between, spawn one process if none was playing and none otherwise, the
\* second call spawns nothing, and one process is alive afterwards; two
\* stop_playing() calls in a row leave no process and no handle, and the
\* second call sends no signal and raises nothing.
C2_Idempotent ==
    (pc["h"] = "idle" /\ Len(log) >= 2) =>
        LET a == log[Len(log) - 1]
            b == log[Len(log)]
        IN  /\ (a.op = "start_playing" /\ b.op = "start_playing") =>
                  /\ a.spawned = (a.pre = "idle")
                  /\ ~b.spawned /\ ~a.raised /\ ~b.raised
                  /\ IsLive(process)
                  /\ LiveCount(process, orphans) = 1
            /\ (a.op = "stop_playing" /\ b.op = "stop_playing") =>
                  /\ ~b.signalled /\ ~a.raised /\ ~b.raised
                  /\ process = "None"
                  /\ LiveCount(process, orphans) = 0

\* The leaves of a fully populated document.
AlarmOn(doc)      == doc[<<"alarm", "on">>].b
AlarmHour(doc)    == doc[<<"alarm", "hour">>].n
AlarmMin(doc)     == doc[<<"alarm", "min">>].n
RadioPlaying(doc) == doc[<<"radio", "playing">>].b

\* C3: a tick that evaluates should_play calls start_playing() exactly when
\* should_play is true and last_should_be_playing false, stop_playing()
\* exactly when should_play is false and last_should_be_playing true, and
\* nothing when the two are equal; no other step of the scheduler thread
\* begins a Radio call.
C3_EdgeTriggered ==
    /\ [][check_time_edge =>
            LET should == sched.should
                last   == last_should_be_playing
            IN  /\ (should /\ ~last) =>
                      /\ pc'["s"] = "ip1" /\ site'["s"] = "sp"
                      /\ last_should_be_playing' = TRUE
                /\ (~should /\ last) =>
                      /\ pc'["s"] = "ip1" /\ site'["s"] = "st1"
                      /\ last_should_be_playing' = FALSE
                /\ (should = last) =>
                      /\ pc'["s"] = "s_loop" /\ site'["s"] = "none"
                      /\ last_should_be_playing' = last]_vars
    /\ [][(site["s"] = "none" /\ site'["s"] # "none") => check_time_edge]_vars

\* The scheduler is in the stop_playing() of a true -> false crossing, which
\* follows the start_playing() of a false -> true crossing.
C3_Witness ==
    /\ site["s"] = "st1" /\ pc["s"] = "ip1"
    /\ sched_last_call = "stop_playing"
    /\ ~last_should_be_playing
    /\ AlarmOn(config)

\* seconds since midnight
Seconds(t) == 3600 * t[1] + 60 * t[2] + t[3]

\* hour:min:00 <= t <= (hour+1):min:00
InClosedHour(t, hour, min) ==
    /\ Seconds(<<hour, min, 0>>) <= Seconds(t)
    /\ Seconds(t) <= Seconds(<<hour, min, 0>>) + 3600

\* C4: is_within_alarm_time() returns true iff hour:min:00 <= t <=
\* (hour+1):min:00 for the configured alarm/hour and alarm/min.
C4_ClosedHourWindow ==
    (pc["s"] \in {"s_edge", "s_dead"}) =>
        /\ pc["s"] = "s_edge"
        /\ sched.should = InClosedHour(sched.now, AlarmHour(config), AlarmMin(config))

\* C5: on a tick of a Saturday or Sunday should_play is false and the tick
\* does not call start_playing(); should_play is true only on the days 0-4
\* at a time within the window.
C5_WeekdayGating ==
    /\ [](pc["s"] = "s_edge" =>
            /\ sched.wd \in {5, 6} => ~sched.should
            /\ sched.should =>
                  /\ sched.wd \in 0..4
                  /\ Seconds(<<sched.sh, sched.sm, 0>>) <= Seconds(sched.now)
                  /\ Seconds(sched.now) <= Seconds(<<sched.eh + 1, sched.em, 0>>))
    /\ [][(check_time_edge /\ sched.wd \in {5, 6}) => site'["s"] # "sp"]_vars

\* A Saturday tick with the alarm on has evaluated should_play.
C5_Witness ==
    /\ pc["s"] = "s_edge" /\ sched.wd = 5
    /\ AlarmOn(config)
    /\ ~last_should_be_playing

\* C6: whenever the service is up and no set is in progress the file holds
\* the in-memory document, and a restart of the running service loads a
\* document in which every key has the value it had in memory.
C6_RoundTrip ==
    /\ [](service = "up" => file = Saved(config))
    /\ [][(Restart /\ service = "up") =>
            /\ service' = "up"
            /\ \A key \in {K_alarm_on, K_alarm_hour, K_alarm_min, K_radio_playing} :
                  Get(config', key) = Get(config, key)]_vars

\* After a restart (no request answered since) the document holds values
\* that only set calls of requests can have put there.
C6_Witness ==
    /\ service = "up" /\ pc["h"] = "idle" /\ resp = "" /\ err["h"] = "none"
    /\ AlarmHour(config) = 7 /\ AlarmMin(config) = 59
    /\ AlarmOn(config) /\ RadioPlaying(config)

\* C7: a time request outside 0..23 x 0..59 is answered "time not valid" and
\* changes neither alarm/hour nor alarm/min; one inside is accepted and
\* stores both values; alarm/hour stays in 0..23 and alarm/min in 0..59.
C7_TimeValidation ==
    /\ [](service = "up" =>
            /\ AlarmHour(config) \in 0..23
            /\ AlarmMin(config) \in 0..59)
    /\ [][\A q \in TimeRequests :
            (q[1].numeric /\ q[2].numeric /\ AlarmTimeResource_on_get(q[1], q[2])) =>
                IF q[1].n \in 0..23 /\ q[2].n \in 0..59
                THEN /\ AlarmHour(config') = q[1].n
                     /\ pc'["h"] = "at_min"
                     /\ req'.hour = q[1].n /\ req'.min = q[2].n
                ELSE /\ resp' = "time not valid"
                     /\ pc'["h"] = "idle"
                     /\ config' = config /\ file' = file]_vars
    /\ [][AlarmTimeResource_set_min =>
            /\ AlarmHour(config') = req.hour
            /\ AlarmMin(config') = req.min
            /\ resp' = "time set to %02d:%02d"
            /\ pc'["h"] = "idle"]_vars

\* The request (23, 59) was accepted and stored.
C7_Witness ==
    /\ service = "up" /\ pc["h"] = "idle"
    /\ resp = "time set to %02d:%02d"
    /\ AlarmHour(config) = 23 /\ AlarmMin(config) = 59

\* C8: a radio start request always leaves radio/playing true and a stop
\* request always leaves it false, and the service launches the player
\* while it starts iff the loaded radio/playing is true.
C8_PlayingFollowsRequest ==
    /\ [][((RadioStep("h") \/ RadioResource_set_playing)
            /\ req.route = "radio" /\ req.action \in {"start", "stop"}
            /\ pc'["h"] = "idle") =>
               RadioPlaying(config') = (req.action = "start")]_vars
    /\ [][(Restart /\ service' = "up") =>
            (process' = "running") = RadioPlaying(config')]_vars

\* C9: PersistentConfig() never fails: whatever the file holds, the service
\* comes up, with the default document if the file could not be read or
\* parsed.
C9_LoadNeverFails ==
    /\ [](service # "failed")
    /\ [][Restart => (service' = "up" /\
                       (file.kind # "json" => config' = DEFAULT_CONFIG))]_vars

\* The segments of a key, and the paths to them.
Segments(key) == SelectSeq(key, LAMBDA x : x # "/")
PathTo(key, i) == SubSeq(Segments(key), 1, i)

\* The first of the segments 1..n of the key that is absent from the
\* document, 0 if all are present.
FirstAbsent(doc, key, n) ==
    LET absent == {i \in 1..n : PathTo(key, i) \notin DOMAIN doc}
    IN  IF absent = {} THEN 0 ELSE CHOOSE i \in absent : \A j \in absent : i <= j

DescentError(doc, key, i) ==
    IF doc[PathTo(key, i - 1)].t = "map" THEN "KeyError" ELSE "TypeError"

NonCommandFrame ==
    /\ config' = config /\ file' = file
    /\ process' = process /\ orphans' = orphans
    /\ last_should_be_playing' = last_should_be_playing

\* C11: an unrecognized action on /radio/{action} or /alarm/{action} is
\* answered "not sure what to do with this" and a status action is answered
\* with the current state; neither changes the document, the file, the
\* player process, Radio.process or last_should_be_playing, and neither
\* raises.
C11_NonCommandsChangeNothing ==
    [][/\ RadioResource_on_get("bogus") =>
            /\ NonCommandFrame
            /\ resp' = "not sure what to do with this" /\ err'["h"] = "none"
       /\ RadioResource_on_get("status") => NonCommandFrame
       /\ (RadioStep("h") /\ site["h"] = "h_status") =>
            /\ NonCommandFrame
            /\ pc'["h"] = "idle" =>
                  /\ err'["h"] = "none"
                  /\ resp' = IF IsLive(process) THEN "started" ELSE "stopped"
       /\ AlarmResource_on_get("bogus") =>
            /\ NonCommandFrame
            /\ resp' = "not sure what to do with this" /\ err'["h"] = "none"
       /\ AlarmResource_on_get("status") =>
            /\ NonCommandFrame
            /\ err'["h"] = "none"
            /\ resp' = IF AlarmOn(config) THEN "on at %02d:%02d" ELSE "off"]_vars

\* C12: a liveness check that observes the process of Radio.process as
\* exited leaves Radio.process None, and is_playing() answers true iff
\* Radio.process is a handle whose process has not exited.
C12_NoStaleHandle ==
    [][\A t \in Threads :
          /\ (is_playing_2(t) /\ process = "exited") => process' = "None"
          /\ ((is_playing_1(t) \/ is_playing_2(t)) /\ site[t] = "sp"
                 /\ pc'[t] # "ip2") =>
                (pc'[t] = "spawn") = ~(process # "None" /\ process # "exited")
          /\ ((is_playing_1(t) \/ is_playing_2(t)) /\ site[t] = "st1"
                 /\ pc'[t] # "ip2") =>
                (pc'[t] = "term") = (process # "None" /\ process # "exited")]_vars

\* What C13 says of a stop_playing() call, given what it has done so far:
\* SIGKILL is sent only after SIGTERM and only if the is_playing() after
\* the grace period found the process alive, and that is_playing() comes
\* after the SIGTERM.
StopOrdered(call) ==
    /\ call.killed => (call.terminated /\ call.recheck = "alive")
    /\ call.recheck # "none" => call.terminated
    /\ call.terminated => call.pre = "playing"

\* C13: a stop_playing() called while the player is alive sends SIGTERM,
\* then checks again after the grace period and sends SIGKILL exactly if the
\* process was still alive at that check, never SIGKILL before SIGTERM;
\* when it returns Radio.process is None and no player process is alive.
C13_StopProtocol ==
    /\ cur.op = "stop_playing" => StopOrdered(cur)
    /\ (pc["h"] = "idle" /\ Len(log) >= 1) =>
          LET b == log[Len(log)]
          IN  (b.op = "stop_playing" /\ b.pre = "playing") =>
                 /\ StopOrdered(b)
                 /\ ~b.raised
                 /\ b.terminated
                 /\ b.recheck # "none"
                 /\ b.killed = (b.recheck = "alive")
                 /\ process = "None"
                 /\ LiveCount(process, orphans) = 0

\* A stop_playing() has returned that sent SIGTERM, found the process still
\* alive after the grace period and sent SIGKILL.
C13_Witness ==
    /\ pc["h"] = "idle" /\ Len(log) >= 1
    /\ log[Len(log)].op = "stop_playing"
    /\ log[Len(log)].pre = "playing"
    /\ log[Len(log)].killed
    /\ process = "None"

\* C14: however stop_playing() interleaves with another stop_playing() or
\* start_playing(), no call reaches through Radio.process after another
\* call set it to None, and the kill() of a stop never hits a process that
\* was spawned after the terminate() of that stop.
C14_NoCrossCallInterference ==
    /\ [](\A t \in Threads : err[t] # "AttributeError")
    /\ [][\A t \in Threads : kill(t) => process # "running"]_vars

\* C15: with alarm/hour 23 the window evaluation of a tick reads 23 for the
\* end hour, datetime.time(24, min) raises ValueError and the exception
\* ends the scheduler thread; a thread that has ended runs no tick and
\* makes no Radio call for as long as the service runs, whatever requests
\* change afterwards.
C15_Hour23EndsScheduler ==
    /\ [][(read_end_hour /\ AlarmHour(config) = 23) =>
            (pc'["s"] = "s_end_min" /\ sched'.eh = 23)]_vars
    /\ [][(read_end_min /\ sched.eh = 23) =>
            (pc'["s"] = "s_dead" /\ err'["s"] = "ValueError"
               /\ site'["s"] = "none"
               /\ last_should_be_playing' = last_should_be_playing)]_vars
    /\ [][(pc["s"] = "s_dead" /\ ~Restart) =>
            /\ pc'["s"] = "s_dead" /\ site'["s"] = "none"
            /\ err'["s"] = err["s"]
            /\ last_should_be_playing' = last_should_be_playing
            /\ sched_last_call' = sched_last_call]_vars

\* The thread ended with ValueError and the alarm time has since been set
\* to 07:59.
C15_Witness ==
    /\ service = "up"
    /\ pc["s"] = "s_dead" /\ err["s"] = "ValueError"
    /\ AlarmOn(config)
    /\ AlarmHour(config) = 7 /\ AlarmMin(config) = 59
    /\ resp = "time set to %02d:%02d"

\* C16: a pass of the loop of run that reads alarm/on as false changes
\* nothing: no Radio call, last_should_be_playing as it was, the player
\* untouched.  A tick is begun only on reading alarm/on as true, the
\* scheduler thread enters Radio only from the if / elif of a tick, and
\* last_should_be_playing changes only there (or when the service restarts).
C16_DisabledTickDoesNothing ==
    /\ [][(run /\ ~thread_should_exit /\ ~AlarmOn(config)) => UNCHANGED vars]_vars
    /\ [][(pc["s"] = "s_loop" /\ pc'["s"] = "s_clock") =>
            (run /\ AlarmOn(config))]_vars
    /\ [][(pc["s"] = "s_loop" /\ site'["s"] # "none") => Restart]_vars
    /\ [][(last_should_be_playing' # last_should_be_playing) =>
            (check_time_edge \/ Restart)]_vars

\* The alarm started the player, the alarm was then switched off, and the
\* scheduler is back at its loop: the player is alive and
\* last_should_be_playing is still true.
C16_Witness ==
    /\ service = "up" /\ pc["s"] = "s_loop" /\ pc["h"] = "idle"
    /\ ~AlarmOn(config)
    /\ resp = "ok, set alarm off"
    /\ last_should_be_playing
    /\ sched_last_call = "start_playing"
    /\ process = "running"
    /\ ~RadioPlaying(config)

\* A step of the scheduler thread.
SchedulerStep ==
    \/ run
    \/ \E wd \in Weekdays, now \in Times : check_time_clock(wd, now)
    \/ read_start_hour \/ read_start_min \/ read_end_hour \/ read_end_min
    \/ check_time_edge
    \/ RadioStep("s")

\* C17: no step of the scheduler thread, the Radio calls it makes included,
\* changes the document in memory or the file; radio/playing changes only
\* in the config.set of a /radio/start or /radio/stop request.
C17_SchedulerOnlyReads ==
    /\ [][SchedulerStep => (config' = config /\ file' = file)]_vars
    /\ [][(Get(config', K_radio_playing) # Get(config, K_radio_playing)) =>
            /\ RadioResource_set_playing
            /\ req.route = "radio" /\ req.action \in {"start", "stop"}]_vars

\* The scheduler has started and stopped the player and is back at its
\* loop; radio/playing is false as it was loaded.
C17_Witness ==
    /\ service = "up" /\ pc["s"] = "s_loop"
    /\ sched_last_call = "stop_playing"
    /\ ~last_should_be_playing
    /\ process = "None"
    /\ ~RadioPlaying(config)
    /\ file = Saved(config)

\* One run of the service, from its start to its shutdown, with the
\* requests that switch the alarm and the radio.
NextShutdown ==
    \/ \E a \in {"start", "stop"} : RadioResource_on_get(a)
    \/ RadioResource_set_playing
    \/ \E a \in {"on", "off"} : AlarmResource_on_get(a)
    \/ SchedulerStep
    \/ RadioStep("h")
    \/ \E which \in {"process", "running", "terminating"} : ProcessExits(which)
    \/ AlarmResource_del

\* The scheduler thread keeps running: it is an operating system thread,
\* and none of its steps waits for another thread (time.sleep returns,
\* terminate and kill only send a signal).
SpecShutdown == Init /\ [][NextShutdown]_vars /\ WF_vars(SchedulerStep)

\* The scheduler thread has ended: run returned or raised.
ThreadEnded == pc["s"] \in {"s_done", "s_dead"}

\* C18: once thread_should_exit is set the scheduler thread ends, so the
\* join returns; the flag is
\* read in the loop test of run and nowhere else, no tick begins with the
\* flag set, and after run has returned the thread does nothing more.
C18_CooperativeShutdown ==
    /\ thread_should_exit ~> ThreadEnded
    /\ [][(pc["s"] # "s_done" /\ pc'["s"] = "s_done") =>
            (run /\ thread_should_exit)]_vars
    /\ [][(pc["s"] = "s_loop" /\ pc'["s"] = "s_clock") => ~thread_should_exit]_vars
    /\ [][(pc["s"] = "s_loop" /\ thread_should_exit /\ ~Restart) =>
            pc'["s"] \in {"s_loop", "s_done"}]_vars
    /\ [][(pc["s"] = "s_done" /\ ~Restart) =>
            /\ pc'["s"] = "s_done" /\ site'["s"] = "none"
            /\ last_should_be_playing' = last_should_be_playing
            /\ UNCHANGED <<process, orphans, config, file>>
               \/ \E which \in {"process", "running", "terminating"} :
                     ProcessExits(which)]_vars

\* run has observed the flag and returned while the alarm was on and the
\* player it started is alive.
C18_Witness ==
    /\ thread_should_exit /\ pc["s"] = "s_done"
    /\ AlarmOn(config)
    /\ last_should_be_playing
    /\ process = "running"

\* The alarm times the configuration holds between requests: the time of
\* the file at start and the times that requests set.
CompleteTimes ==
    {<<AlarmHour(DEFAULT_CONFIG), AlarmMin(DEFAULT_CONFIG)>>}
    \cup {<<q[1].n, q[2].n>> : q \in {r \in TimeRequests :
             r[1].numeric /\ r[2].numeric /\ r[1].n \in 0..23 /\ r[2].n \in 0..59}}

\* C19: the window a tick evaluates is the window of one alarm time, the
\* one before or the one after a time request, never of a mixture of the
\* hour of one and the minute of the other; so should_play is true only at
\* a time inside the window of such a time.
C19_TimeSetAtomic ==
    (pc["s"] = "s_edge" /\ "em" \in DOMAIN sched) =>
        /\ <<sched.sh, sched.sm>> \in CompleteTimes
        /\ <<sched.eh, sched.em>> = <<sched.sh, sched.sm>>
        /\ sched.should =>
              \E c \in CompleteTimes : InClosedHour(sched.now, c[1], c[2])

\* C20: within one run of the service the Radio calls of the scheduler
\* thread alternate, beginning with start_playing(): it calls
\* stop_playing() only if its most recent call was start_playing(), it
\* calls start_playing() only if it has made no call yet or its most recent
\* call was stop_playing(), and last_should_be_playing is true exactly when
\* its most recent call was start_playing().
C20_CallsAlternate ==
    /\ [](last_should_be_playing = (sched_last_call = "start_playing"))
    /\ [][(check_time_edge /\ site'["s"] = "st1") =>
            (sched_last_call = "start_playing"
               /\ sched_last_call' = "stop_playing")]_vars
    /\ [][(check_time_edge /\ site'["s"] = "sp") =>
            (sched_last_call \in {"none", "stop_playing"}
               /\ sched_last_call' = "start_playing")]_vars
    /\ [][(sched_last_call' # sched_last_call) =>
            \/ check_time_edge /\ site'["s"] # "none"
            \/ Restart]_vars

\* After a start and a stop, a tick inside the window is about to make
\* the scheduler's second start_playing().
C20_Witness ==
    /\ pc["s"] = "s_edge" /\ sched.should
    /\ sched_last_call = "stop_playing"
    /\ ~last_should_be_playing

=============================================================================
